---- MODULE Spec2Model ----
(***************************************************************************)
(* Model of notebook/services/kernels/kernelmanager.py: the                *)
(* MappingKernelManager registry of KernelInterface sessions, its          *)
(* coroutines (start_kernel, shutdown_kernel, restart_kernel), the         *)
(* restarter callbacks, the activity watcher, message buffering and the   *)
(* idle culler.                                                            *)
(*                                                                         *)
(* Every tornado coroutine is cut at its yield points: the code between    *)
(* two yields is one action, and the event loop interleaves the actions    *)
(* of all coroutines in flight.                                            *)
(***************************************************************************)
EXTENDS Integers, Sequences, FiniteSets, TLC

\* ---------------------------------------------------------------- bounds
MaxIds == 2          \* identifiers uuid4() hands out
MaxLifeIds == 1      \* of which the lifecycle and culling runs use
MaxObjs == 3         \* KernelInterface objects ever constructed
MaxTasks == 2        \* request coroutines in flight at once
MaxTime == 2         \* clock range 0..MaxTime
MaxConn == 3         \* notify_connect stops at this count
MaxNeg == 1          \* notify_disconnect stops at -MaxNeg
MaxShutdown == 2     \* n_shutdown counts shutdown() calls up to this
MaxBuffer == 2       \* messages a kernel sends while one key buffers
MaxRestarts == 1     \* relaunches by the restarter of one object

Ids == 1 .. MaxIds
LifeIds == 1 .. MaxLifeIds
UnknownId == MaxIds + 1      \* an identifier uuid4() never returns
NoId == 0
NoObj == 0
None == "None"

\* kernel_name arguments of start_kernel and the kernel types they launch
KernelNames == {None, "ir", "spec/ir"}
HasSlash == {"spec/ir", "pyimport/kernel"}
KernelTypes == {"pyimport/kernel", "spec/ir"}
Timeouts == {0, 1}           \* configured cull_idle_timeout values
CullTimeouts == Timeouts \cup {-1}

\* The channels start_buffering attaches a handler to, the session keys of
\* the websocket connections, and the messages of the shell and stdin
\* channels.
Channels == {"shell", "iopub", "stdin"}
SessionKeys == {"k1", "k2"}
ReplyMsgs == {"reply"}

VARIABLES
    _kernels,             \* MappingKernelManager._kernels: id -> object
    _kernel_connections,  \* MappingKernelManager._kernel_connections
    objs,                 \* every KernelInterface constructed so far
    tasks,                \* suspended coroutines
    nextid,               \* next identifier uuid4() returns
    now,                  \* utcnow()
    last_kernel_activity,
    _initialized_culler,
    _culler_callback,     \* None or "started"
    cull_idle_timeout, cull_busy, cull_connected,
    buffer_offline_messages,
    gauge,                \* KERNEL_CURRENTLY_RUNNING_TOTAL per type
    last                  \* outcome of the step just taken

vars == <<_kernels, _kernel_connections, objs, tasks, nextid, now,
          last_kernel_activity, _initialized_culler, _culler_callback,
          cull_idle_timeout, cull_busy, cull_connected,
          buffer_offline_messages, gauge, last>>

config == <<cull_idle_timeout, cull_busy, cull_connected,
            buffer_offline_messages>>
culler == <<_initialized_culler, _culler_callback>>

\* ---------------------------------------------------------------- helpers
RemoveAt(s, i) == [j \in 1 .. Len(s) - 1 |-> IF j < i THEN s[j] ELSE s[j + 1]]

MapPop(m, k) == [x \in DOMAIN m \ {k} |-> m[x]]
MapPut(m, k, v) == [x \in DOMAIN m \cup {k} |-> IF x = k THEN v ELSE m[x]]
MapGet(m, k, d) == IF k \in DOMAIN m THEN m[k] ELSE d

\* The outcome of a step: the operation, its identifier argument, its
\* result, the objects it acted on; name is the kernel_name argument of a
\* start_kernel or the channel of a message, seen and errors the
\* identifiers a culling tick evaluated and logged an exception for, buf
\* and key what get_buffer returned, or the messages and the session key
\* stop_buffering logged as discarded (with key the new session key of a
\* start_buffering and name the one it discarded).
Event(op, kid, res, kernel, new) ==
    [op |-> op, kid |-> kid, res |-> res, kernel |-> kernel, new |-> new,
     name |-> None, seen |-> {}, errors |-> {}, buf |-> <<>>, key |-> None]

Task(op, kid, pc, kernel, new) ==
    [op |-> op, kid |-> kid, pc |-> pc, kernel |-> kernel, new |-> new]

\* ------------------------------------------------------- KernelInterface
\* KernelInterface.__init__: the attributes a new object has.  alive is the
\* liveness of its process, restarter the TornadoKernelRestarter started
\* here, n_shutdown the number of shutdown() calls made on the object;
\* fate records what took the object out of service: "stopped" by
\* shutdown_kernel, "culled" by the culler, "replaced" when _start_kernel
\* bound another object to its identifier.  handlers counts the buffering
\* handlers attached to the client per channel; arrived lists the messages
\* the client delivered since start_buffering set the session key.  manager
\* numbers the processes of the object (1 is the one kernel_finder.launch
\* returned, the restarter's relaunches follow), client_for is the process
\* the client was opened to, n_clients the clients created.
KernelInterface(kernel_type) ==
    [kernel_type |-> kernel_type,
     n_connections |-> 0,
     execution_state |-> "starting",
     last_activity |-> now,
     alive |-> TRUE,
     cleaned |-> FALSE,
     killed |-> FALSE,
     restarter |-> "started",
     fate |-> None,
     dead_cb |-> NoId,
     client |-> None,
     watching |-> FALSE,
     n_shutdown |-> 0,
     buffer_for_key |-> None,
     buffer |-> <<>>,
     buffer_handlers |-> {},
     handlers |-> [c \in Channels |-> 0],
     arrived |-> <<>>,
     manager |-> 1,
     client_for |-> 0,
     n_clients |-> 0]

\* Attribute names of a KernelInterface instance (set in __init__, plus the
\* class attribute client and LoggingConfigurable's log, config, parent).
KernelInterfaceAttrs ==
    {"kernel_type", "kernel_finder", "connection_info", "manager",
     "n_connections", "execution_state", "last_activity", "restarter",
     "buffer_for_key", "buffer", "buffer_handlers", "client",
     "log", "config", "parent"}

\* connect_client up to its yield: an existing client is returned as it
\* is, otherwise a client is created and the caller waits for readiness.
connect_client(k) ==
    IF k.client # None THEN k
    ELSE [k EXCEPT !.client = "waiting",
                   !.client_for = k.manager,
                   !.n_clients = @ + 1]

\* A restart handler that also resets the execution state.
_handle_kernel_restarted_reset(k, manager) ==
    connect_client([k EXCEPT !.manager = manager,
                             !.execution_state = "starting"])

\* _handle_kernel_restarted (lines 79-82), the restarter's 'restart'
\* callback: the new manager is adopted and connect_client is called
\* without waiting for it.
_handle_kernel_restarted(k, manager) ==
    connect_client([k EXCEPT !.manager = manager])

\* A stop_buffering that forgets its handlers without detaching them.
kernel_stop_buffering_attached(k) ==
    [k EXCEPT !.buffer_handlers = {},
              !.buffer = <<>>,
              !.buffer_for_key = None,
              !.arrived = <<>>]

\* KernelInterface.stop_buffering: every handler in buffer_handlers is
\* removed from the client (a handler that is not attached is skipped),
\* then buffer_handlers, buffer and buffer_for_key are reset.
kernel_stop_buffering(k) ==
    [k EXCEPT !.handlers = [c \in Channels |->
                              IF c \in k.buffer_handlers /\ @[c] > 0
                              THEN @[c] - 1 ELSE @[c]],
              !.buffer_handlers = {},
              !.buffer = <<>>,
              !.buffer_for_key = None,
              !.arrived = <<>>]

\* KernelInterface.start_buffering(session_key): the key is recorded and
\* one handler per channel is added to the client and to buffer_handlers.
kernel_start_buffering(k, session_key) ==
    [k EXCEPT !.buffer_for_key = session_key,
              !.handlers = [c \in Channels |-> @[c] + 1],
              !.buffer_handlers = Channels,
              !.arrived = <<>>]

\* A get_buffer that reads the buffer after stop_buffering has reset it.
kernel_get_buffer_late(k) ==
    [buffer |-> kernel_stop_buffering(k).buffer,
     key |-> kernel_stop_buffering(k).buffer_for_key,
     kernel |-> kernel_stop_buffering(k)]

\* KernelInterface.get_buffer: the pair it returns and the object after.
kernel_get_buffer(k) ==
    [buffer |-> k.buffer,
     key |-> k.buffer_for_key,
     kernel |-> kernel_stop_buffering([k EXCEPT !.buffer = <<>>])]

\* The client delivers a message of a channel: each buffering handler
\* attached to that channel runs buffer_msg, which appends the pair.
buffer_msg(k, channel, msg) ==
    [k EXCEPT !.buffer = @ \o [j \in 1 .. k.handlers[channel] |->
                                  <<channel, msg>>],
              !.arrived = IF k.buffer_for_key # None
                          THEN Append(@, <<channel, msg>>) ELSE @]

\* KernelInterface.shutdown after its yield (or with now=True, all of it).
shutdown_finish(k) ==
    kernel_stop_buffering([k EXCEPT !.client = "closed", !.cleaned = TRUE])

\* --------------------------------------------------- MappingKernelManager
\* start_kernel lines 272-275: the kernel type launched for a kernel_name.
kernel_type_for(kernel_name) ==
    IF kernel_name = None THEN "pyimport/kernel"
    ELSE IF kernel_name \notin HasSlash THEN "spec/ir"
    ELSE kernel_name

\* __contains__
Contains(kernel_id) == kernel_id \in DOMAIN _kernels

\* A check that never raises.
check_kernel_id_none(kernel_id) == TRUE

\* _check_kernel_id: TRUE when it returns, FALSE when it raises 404.
check_kernel_id(kernel_id) == Contains(kernel_id)

\* kernel_model
kernel_model(kernel_id) ==
    [id |-> kernel_id,
     name |-> objs[_kernels[kernel_id]].kernel_type,
     last_activity |-> objs[_kernels[kernel_id]].last_activity,
     execution_state |-> objs[_kernels[kernel_id]].execution_state,
     connections |-> objs[_kernels[kernel_id]].n_connections]

\* list_kernel_ids
list_kernel_ids == DOMAIN _kernels

\* An initialize_culler that schedules the callback for a zero timeout.
initialize_culler_nonneg ==
    <<TRUE,
      IF ~_initialized_culler /\ cull_idle_timeout >= 0
         /\ _culler_callback = None
      THEN "started" ELSE _culler_callback>>

\* initialize_culler: the values of _initialized_culler, _culler_callback
\* after the call.
initialize_culler ==
    <<TRUE,
      IF ~_initialized_culler /\ cull_idle_timeout > 0
         /\ _culler_callback = None
      THEN "started" ELSE _culler_callback>>

GaugeInc(g, t) == [g EXCEPT ![t] = @ + 1]
GaugeDec(g, t) == [g EXCEPT ![t] = @ - 1]

\* MappingKernelManager.__init__ and the class attributes; the culling
\* options are configuration.
InitRegistry ==
    /\ _kernels = <<>>
    /\ _kernel_connections = <<>>
    /\ objs = <<>>
    /\ tasks = <<>>
    /\ nextid = 1
    /\ now = 0
    /\ last_kernel_activity = 0
    /\ _initialized_culler = FALSE
    /\ _culler_callback = None
    /\ gauge = [t \in KernelTypes |-> 0]
    /\ last = Event("init", NoId, "ok", NoObj, NoObj)

\* The lifecycle is explored with the culling flags at their defaults.
Init ==
    /\ InitRegistry
    /\ cull_idle_timeout \in Timeouts
    /\ cull_busy = FALSE
    /\ cull_connected = FALSE
    /\ buffer_offline_messages = TRUE

InitCull ==
    /\ InitRegistry
    /\ cull_idle_timeout \in CullTimeouts
    /\ cull_busy \in BOOLEAN
    /\ cull_connected \in BOOLEAN
    /\ buffer_offline_messages = TRUE

\* A culler that is always scheduled.
InitTick ==
    /\ InitRegistry
    /\ cull_idle_timeout = 1
    /\ cull_busy \in BOOLEAN
    /\ cull_connected = FALSE
    /\ buffer_offline_messages = TRUE

\* Buffering, with the culler switched off.
InitBuffer ==
    /\ InitRegistry
    /\ cull_idle_timeout = 0
    /\ cull_busy = FALSE
    /\ cull_connected = FALSE
    /\ buffer_offline_messages \in BOOLEAN


\* ---------------------------------------------------------------- actions
\* Objects that coroutines suspended in restart_kernel's shutdown will
\* still construct.
PendingLaunches ==
    Cardinality({i \in 1 .. Len(tasks) :
                    tasks[i].op = "restart" /\ tasks[i].pc = "shutdown_wait"})

\* start_kernel(kernel_id=None, kernel_name): lines 268-277 and
\* _start_kernel up to its yield.  kernel_finder.launch either raises or
\* returns a process.
start_kernel_new(kernel_name) ==
    /\ Len(tasks) < MaxTasks
    /\ nextid <= MaxIds
    /\ Len(objs) + PendingLaunches < MaxObjs
    /\ \E launched \in BOOLEAN :
        IF launched
        THEN /\ objs' = Append(objs, connect_client(
                            KernelInterface(kernel_type_for(kernel_name))))
             /\ tasks' = Append(tasks, Task("start", nextid, "ready_wait",
                                            NoObj, Len(objs) + 1))
             /\ nextid' = nextid + 1
             /\ last' = Event("start", nextid, "pending", NoObj, Len(objs) + 1)
        ELSE /\ last' = Event("start", nextid, "LaunchFailure", NoObj, NoObj)
             /\ UNCHANGED <<objs, tasks, nextid>>
    /\ UNCHANGED <<_kernels, _kernel_connections, now, last_kernel_activity,
                   culler, config, gauge>>

\* A start_kernel that applies kernel_name to the existing session.
start_kernel_existing_retype(kernel_id, kernel_name) ==
    /\ IF check_kernel_id(kernel_id)
       THEN /\ _initialized_culler' = initialize_culler[1]
            /\ _culler_callback' = initialize_culler[2]
            /\ objs' = [objs EXCEPT ![_kernels[kernel_id]].kernel_type =
                                        kernel_type_for(kernel_name)]
            /\ last' = [Event("start_existing", kernel_id, "ok",
                              MapGet(_kernels, kernel_id, NoObj), NoObj)
                           EXCEPT !.name = kernel_name]
       ELSE /\ last' = [Event("start_existing", kernel_id, "NotFound",
                              NoObj, NoObj) EXCEPT !.name = kernel_name]
            /\ UNCHANGED <<culler, objs>>
    /\ UNCHANGED <<_kernels, _kernel_connections, tasks, nextid, now,
                   last_kernel_activity, config, gauge>>

\* start_kernel(kernel_id=X, kernel_name): lines 285-294.
start_kernel_existing(kernel_id, kernel_name) ==
    /\ IF check_kernel_id(kernel_id)
       THEN /\ _initialized_culler' = initialize_culler[1]
            /\ _culler_callback' = initialize_culler[2]
            /\ last' = [Event("start_existing", kernel_id, "ok",
                              MapGet(_kernels, kernel_id, NoObj), NoObj)
                           EXCEPT !.name = kernel_name]
       ELSE /\ last' = [Event("start_existing", kernel_id, "NotFound",
                              NoObj, NoObj) EXCEPT !.name = kernel_name]
            /\ UNCHANGED culler
    /\ UNCHANGED <<_kernels, _kernel_connections, objs, tasks, nextid, now,
                   last_kernel_activity, config, gauge>>

\* A registration that forgets the 'dead' callback.
start_kernel_register_nocb(k, kernel_id) ==
    [k EXCEPT !.client = "ready", !.watching = TRUE]

\* _start_kernel lines 300-308, run when wait_for_ready returns: register
\* the object, start_watching_activity, add the 'dead' callback.
start_kernel_register(k, kernel_id) ==
    [k EXCEPT !.client = "ready", !.watching = TRUE, !.dead_cb = kernel_id]

\* wait_for_ready returns in a suspended _start_kernel.
ReadyObserved(i) ==
    /\ i \in 1 .. Len(tasks)
    /\ tasks[i].pc = "ready_wait"
    /\ objs[tasks[i].new].alive
    /\ LET t == tasks[i] IN
        /\ _kernels' = MapPut(_kernels, t.kid, t.new)
        /\ objs' = [o \in DOMAIN objs |->
                      IF o = t.new THEN start_kernel_register(objs[o], t.kid)
                      ELSE IF MapGet(_kernels, t.kid, NoObj) = o
                      THEN [objs[o] EXCEPT !.fate = "replaced"]
                      ELSE objs[o]]
        /\ IF t.op = "start"
           THEN /\ tasks' = [tasks EXCEPT ![i].pc = "registered"]
                /\ last' = Event("_start_kernel", t.kid, "registered",
                                 NoObj, t.new)
           ELSE /\ tasks' = RemoveAt(tasks, i)
                /\ last' = Event(t.op, t.kid, "ok", t.kernel, t.new)
    /\ UNCHANGED <<_kernel_connections, nextid, now, last_kernel_activity,
                   culler, config, gauge>>

\* wait_for_ready raises in a suspended _start_kernel: nothing is
\* registered and the error reaches the caller.
ReadyFailed(i) ==
    /\ i \in 1 .. Len(tasks)
    /\ tasks[i].pc = "ready_wait"
    /\ tasks' = RemoveAt(tasks, i)
    /\ last' = Event(tasks[i].op, tasks[i].kid, "ConnectTimeout",
                     tasks[i].kernel, tasks[i].new)
    /\ UNCHANGED <<_kernels, _kernel_connections, objs, nextid, now,
                   last_kernel_activity, culler, config, gauge>>

\* start_kernel lines 279-294, resumed after _start_kernel has returned.
start_kernel_finish(i) ==
    /\ i \in 1 .. Len(tasks)
    /\ tasks[i].op = "start" /\ tasks[i].pc = "registered"
    /\ tasks' = RemoveAt(tasks, i)
    /\ IF tasks[i].kid \in DOMAIN _kernels
       THEN /\ gauge' = GaugeInc(gauge,
                            objs[_kernels[tasks[i].kid]].kernel_type)
            /\ _initialized_culler' = initialize_culler[1]
            /\ _culler_callback' = initialize_culler[2]
            /\ last' = Event("start", tasks[i].kid, "ok", NoObj, tasks[i].new)
       ELSE /\ last' = Event("start", tasks[i].kid, "KeyError",
                             NoObj, tasks[i].new)
            /\ UNCHANGED <<gauge, culler>>
    /\ UNCHANGED <<_kernels, _kernel_connections, objs, nextid, now,
                   last_kernel_activity, config>>

\* The argument shutdown_kernel passes to kernel.shutdown (line 353).
shutdown_kernel_now(now_) == FALSE

\* KernelInterface.shutdown up to its yield: with now the process is killed
\* and the method runs to its end, otherwise it suspends in
\* client.shutdown_or_terminate.
shutdown_begin(k, now_) ==
    LET called == [k EXCEPT !.n_shutdown =
                               IF @ < MaxShutdown THEN @ + 1 ELSE @]
    IN  IF now_
        THEN shutdown_finish([called EXCEPT !.killed = TRUE, !.alive = FALSE])
        ELSE called

\* shutdown_kernel(kernel_id, now): lines 350-353 (and 354-360 when
\* kernel.shutdown does not suspend).
shutdown_kernel(kernel_id, now_) ==
    /\ Len(tasks) < MaxTasks
    /\ IF ~check_kernel_id(kernel_id)
       THEN /\ last' = Event("stop", kernel_id, "NotFound", NoObj, NoObj)
            /\ UNCHANGED <<_kernels, objs, tasks, last_kernel_activity, gauge>>
       ELSE IF kernel_id \notin DOMAIN _kernels      \* dict.pop: KeyError
       THEN /\ last' = Event("stop", kernel_id, "KeyError", NoObj, NoObj)
            /\ UNCHANGED <<_kernels, objs, tasks, last_kernel_activity, gauge>>
       ELSE LET o == _kernels[kernel_id] IN
            /\ _kernels' = MapPop(_kernels, kernel_id)
            /\ objs' = [objs EXCEPT
                          ![o] = shutdown_begin([@ EXCEPT !.fate = "stopped"],
                                                shutdown_kernel_now(now_))]
            /\ IF shutdown_kernel_now(now_)
               THEN /\ last_kernel_activity' = now
                    /\ gauge' = GaugeDec(gauge, objs[o].kernel_type)
                    /\ last' = Event("stop", kernel_id, "ok", o, NoObj)
                    /\ UNCHANGED tasks
               ELSE /\ tasks' = Append(tasks, Task("stop", kernel_id,
                                                   "shutdown_wait", o, NoObj))
                    /\ last' = Event("stop", kernel_id, "pending", o, NoObj)
                    /\ UNCHANGED <<last_kernel_activity, gauge>>
    /\ UNCHANGED <<_kernel_connections, nextid, now, culler, config>>

\* A restart that launches the default kernel type.
restart_kernel_type_default(kernel) == "pyimport/kernel"

\* The kernel type restart_kernel passes to _start_kernel (line 373).
restart_kernel_type(kernel) == kernel.kernel_type

\* restart_kernel(kernel_id): lines 365-368.
restart_kernel(kernel_id) ==
    /\ Len(tasks) < MaxTasks
    /\ IF ~check_kernel_id(kernel_id)
       THEN /\ last' = Event("restart", kernel_id, "NotFound", NoObj, NoObj)
            /\ UNCHANGED <<objs, tasks>>
       ELSE IF kernel_id \notin DOMAIN _kernels      \* get_kernel: KeyError
       THEN /\ last' = Event("restart", kernel_id, "KeyError", NoObj, NoObj)
            /\ UNCHANGED <<objs, tasks>>
       ELSE LET o == _kernels[kernel_id] IN
            /\ Len(objs) + PendingLaunches < MaxObjs
            /\ objs' = [objs EXCEPT ![o] = shutdown_begin(@, FALSE)]
            /\ tasks' = Append(tasks, Task("restart", kernel_id,
                                           "shutdown_wait", o, NoObj))
            /\ last' = Event("restart", kernel_id, "pending", o, NoObj)
    /\ UNCHANGED <<_kernels, _kernel_connections, nextid, now,
                   last_kernel_activity, culler, config, gauge>>

\* client.shutdown_or_terminate returns in a suspended
\* KernelInterface.shutdown: lines 72-74, then the caller's continuation:
\* shutdown_kernel lines 354-360, restart_kernel lines 370-374 (which
\* constructs the replacement and suspends in its connect_client), nothing
\* for the culler's unawaited call.
ShutdownDone(i) ==
    /\ i \in 1 .. Len(tasks)
    /\ tasks[i].pc = "shutdown_wait"
    /\ LET t == tasks[i]
           closed == [objs EXCEPT ![t.kernel] =
                         shutdown_finish([@ EXCEPT !.alive = FALSE])]
       IN
        CASE t.op = "stop" ->
                /\ objs' = closed
                /\ tasks' = RemoveAt(tasks, i)
                /\ last_kernel_activity' = now
                /\ gauge' = GaugeDec(gauge, objs[t.kernel].kernel_type)
                /\ last' = Event("stop", t.kid, "ok", t.kernel, NoObj)
          [] t.op = "restart" ->
                /\ \E launched \in BOOLEAN :
                    IF launched
                    THEN /\ objs' = Append(closed, connect_client(
                                 KernelInterface(
                                     restart_kernel_type(objs[t.kernel]))))
                         /\ tasks' = [tasks EXCEPT ![i].pc = "ready_wait",
                                                   ![i].new = Len(objs) + 1]
                         /\ last' = Event("restart", t.kid, "launched",
                                          t.kernel, Len(objs) + 1)
                    ELSE /\ objs' = closed
                         /\ tasks' = RemoveAt(tasks, i)
                         /\ last' = Event("restart", t.kid, "LaunchFailure",
                                          t.kernel, NoObj)
                /\ UNCHANGED <<last_kernel_activity, gauge>>
          [] OTHER ->
                /\ objs' = closed
                /\ tasks' = RemoveAt(tasks, i)
                /\ last' = Event("cull_shutdown", t.kid, "ok", t.kernel, NoObj)
                /\ UNCHANGED <<last_kernel_activity, gauge>>
    /\ UNCHANGED <<_kernels, _kernel_connections, nextid, now, culler, config>>

\* client.shutdown_or_terminate raises in a suspended
\* KernelInterface.shutdown: lines 72-74 are skipped and the error reaches
\* the awaiting caller.
ShutdownFailed(i) ==
    /\ i \in 1 .. Len(tasks)
    /\ tasks[i].pc = "shutdown_wait"
    /\ tasks' = RemoveAt(tasks, i)
    /\ last' = Event(tasks[i].op, tasks[i].kid, "ShutdownError",
                     tasks[i].kernel, NoObj)
    /\ UNCHANGED <<_kernels, _kernel_connections, objs, nextid, now,
                   last_kernel_activity, culler, config, gauge>>

\* gen.with_timeout in restart_kernel expires (lines 375-383).  The
\* _start_kernel coroutine it was waiting for is not cancelled.
RestartTimeout(i) ==
    /\ i \in 1 .. Len(tasks)
    /\ tasks[i].op = "restart" /\ tasks[i].pc = "ready_wait"
    /\ tasks' = [tasks EXCEPT ![i].op = "_start_kernel"]
    /\ gauge' = GaugeDec(gauge, objs[tasks[i].kernel].kernel_type)
    /\ last' = Event("restart", tasks[i].kid, "RestartTimeout",
                     tasks[i].kernel, tasks[i].new)
    /\ UNCHANGED <<_kernels, _kernel_connections, objs, nextid, now,
                   last_kernel_activity, culler, config>>


\* A notify_connect that counts in the registry's _kernel_connections.
notify_connect_table(kernel_id) ==
    /\ IF kernel_id \in DOMAIN _kernels
       THEN /\ MapGet(_kernel_connections, kernel_id, 0) < MaxConn
            /\ _kernel_connections' =
                  MapPut(_kernel_connections, kernel_id,
                         MapGet(_kernel_connections, kernel_id, 0) + 1)
       ELSE UNCHANGED _kernel_connections
    /\ last' = Event("notify_connect", kernel_id, "ok", NoObj, NoObj)
    /\ UNCHANGED <<_kernels, objs, tasks, nextid, now,
                   last_kernel_activity, culler, config, gauge>>

\* notify_connect(kernel_id): lines 385-388.
notify_connect(kernel_id) ==
    /\ IF kernel_id \in DOMAIN _kernels
       THEN /\ objs[_kernels[kernel_id]].n_connections < MaxConn
            /\ objs' = [objs EXCEPT ![_kernels[kernel_id]].n_connections = @ + 1]
       ELSE UNCHANGED objs
    /\ last' = Event("notify_connect", kernel_id, "ok", NoObj, NoObj)
    /\ UNCHANGED <<_kernels, _kernel_connections, tasks, nextid, now,
                   last_kernel_activity, culler, config, gauge>>

\* A notify_disconnect without the membership test.
notify_disconnect_unchecked(kernel_id) ==
    /\ IF kernel_id \in DOMAIN _kernels
       THEN /\ objs[_kernels[kernel_id]].n_connections > -MaxNeg
            /\ objs' = [objs EXCEPT ![_kernels[kernel_id]].n_connections = @ - 1]
            /\ last' = Event("notify_disconnect", kernel_id, "ok", NoObj, NoObj)
       ELSE /\ last' = Event("notify_disconnect", kernel_id, "KeyError",
                             NoObj, NoObj)
            /\ UNCHANGED objs
    /\ UNCHANGED <<_kernels, _kernel_connections, tasks, nextid, now,
                   last_kernel_activity, culler, config, gauge>>

\* notify_disconnect(kernel_id): lines 390-393.
notify_disconnect(kernel_id) ==
    /\ IF kernel_id \in DOMAIN _kernels
       THEN /\ objs[_kernels[kernel_id]].n_connections > -MaxNeg
            /\ objs' = [objs EXCEPT ![_kernels[kernel_id]].n_connections = @ - 1]
       ELSE UNCHANGED objs
    /\ last' = Event("notify_disconnect", kernel_id, "ok", NoObj, NoObj)
    /\ UNCHANGED <<_kernels, _kernel_connections, tasks, nextid, now,
                   last_kernel_activity, culler, config, gauge>>

\* kernel_model(kernel_id) as a request: 404 or the model.
describe(kernel_id) ==
    /\ last' = IF ~check_kernel_id(kernel_id)
               THEN Event("describe", kernel_id, "NotFound", NoObj, NoObj)
               ELSE IF kernel_id \notin DOMAIN _kernels   \* KeyError
               THEN Event("describe", kernel_id, "KeyError", NoObj, NoObj)
               ELSE Event("describe", kernel_id, "ok", _kernels[kernel_id],
                          NoObj)
    /\ UNCHANGED <<_kernels, _kernel_connections, objs, tasks, nextid, now,
                   last_kernel_activity, culler, config, gauge>>

\* list_kernels: the identifiers of the models it returns.
list_kernels == {kernel_model(k).id : k \in DOMAIN _kernels}

\* Messages a kernel publishes on iopub: a status message carrying an
\* execution state, or any other message type.
IopubMsgs == {"idle", "busy", "stream"}

\* record_activity (start_watching_activity lines 442-451), called by the
\* client of object o for an iopub message, together with the buffering
\* handlers attached to iopub.
record_activity(o, msg) ==
    /\ o \in 1 .. Len(objs)
    /\ objs[o].watching /\ objs[o].client = "ready" /\ objs[o].alive
    /\ objs[o].client_for = objs[o].manager
    /\ Len(objs[o].arrived) < MaxBuffer /\ Len(objs[o].buffer) < MaxBuffer
    /\ last_kernel_activity' = now
    /\ objs' = [objs EXCEPT
                  ![o] = buffer_msg(
                      [@ EXCEPT !.last_activity = now,
                                !.execution_state =
                                    IF msg = "stream" THEN @ ELSE msg],
                      "iopub", msg)]
    /\ last' = [Event("iopub", NoId, msg, o, NoObj) EXCEPT !.name = "iopub"]
    /\ UNCHANGED <<_kernels, _kernel_connections, tasks, nextid, now,
                   culler, config, gauge>>

\* The client of object o delivers a message of the shell or stdin
\* channel to the handlers attached to it.
channel_message(o, channel, msg) ==
    /\ o \in 1 .. Len(objs)
    /\ objs[o].client = "ready" /\ objs[o].alive
    /\ objs[o].client_for = objs[o].manager
    /\ Len(objs[o].arrived) < MaxBuffer /\ Len(objs[o].buffer) < MaxBuffer
    /\ objs' = [objs EXCEPT ![o] = buffer_msg(@, channel, msg)]
    /\ last' = [Event("message", NoId, msg, o, NoObj) EXCEPT !.name = channel]
    /\ UNCHANGED <<_kernels, _kernel_connections, tasks, nextid, now,
                   last_kernel_activity, culler, config, gauge>>

\* A start_buffering that does not clear the previous buffering state.
start_buffering_keep(kernel_id, session_key) ==
    /\ IF ~buffer_offline_messages
       THEN /\ last' = [Event("start_buffering", kernel_id, "streams_closed",
                              NoObj, NoObj) EXCEPT !.key = session_key]
            /\ UNCHANGED objs
       ELSE IF ~check_kernel_id(kernel_id)
       THEN /\ last' = [Event("start_buffering", kernel_id, "NotFound",
                              NoObj, NoObj) EXCEPT !.key = session_key]
            /\ UNCHANGED objs
       ELSE IF kernel_id \notin DOMAIN _kernels      \* KeyError
       THEN /\ last' = [Event("start_buffering", kernel_id, "KeyError",
                              NoObj, NoObj) EXCEPT !.key = session_key]
            /\ UNCHANGED objs
       ELSE LET o == _kernels[kernel_id] IN
            /\ objs' = [objs EXCEPT
                          ![o] = kernel_start_buffering(@, session_key)]
            /\ last' = [Event("start_buffering", kernel_id, "ok", o, NoObj)
                           EXCEPT !.key = session_key]
    /\ UNCHANGED <<_kernels, _kernel_connections, tasks, nextid, now,
                   last_kernel_activity, culler, config, gauge>>

\* MappingKernelManager.start_buffering(kernel_id, session_key, channels):
\* lines 310-335.  With buffer_offline_messages off the caller's streams
\* are closed and nothing else happens.
start_buffering(kernel_id, session_key) ==
    /\ IF ~buffer_offline_messages
       THEN /\ last' = [Event("start_buffering", kernel_id, "streams_closed",
                              NoObj, NoObj) EXCEPT !.key = session_key]
            /\ UNCHANGED objs
       ELSE IF ~check_kernel_id(kernel_id)
       THEN /\ last' = [Event("start_buffering", kernel_id, "NotFound",
                              NoObj, NoObj) EXCEPT !.key = session_key]
            /\ UNCHANGED objs
       ELSE IF kernel_id \notin DOMAIN _kernels      \* KeyError
       THEN /\ last' = [Event("start_buffering", kernel_id, "KeyError",
                              NoObj, NoObj) EXCEPT !.key = session_key]
            /\ UNCHANGED objs
       ELSE LET o == _kernels[kernel_id] IN
            /\ objs' = [objs EXCEPT
                          ![o] = kernel_start_buffering(
                                     kernel_stop_buffering(@), session_key)]
            /\ last' = [Event("start_buffering", kernel_id, "ok", o, NoObj)
                           EXCEPT !.key = session_key,
                                  !.buf = objs[o].buffer,
                                  !.name = IF objs[o].buffer = <<>> THEN None
                                           ELSE objs[o].buffer_for_key]
    /\ UNCHANGED <<_kernels, _kernel_connections, tasks, nextid, now,
                   last_kernel_activity, culler, config, gauge>>

\* get_buffer() on the session registered under kernel_id.
get_buffer(kernel_id) ==
    /\ kernel_id \in DOMAIN _kernels
    /\ LET o == _kernels[kernel_id]
           r == kernel_get_buffer(objs[o])
       IN  /\ objs' = [objs EXCEPT ![o] = r.kernel]
           /\ last' = [Event("get_buffer", kernel_id, "ok", o, NoObj)
                          EXCEPT !.buf = r.buffer, !.key = r.key]
    /\ UNCHANGED <<_kernels, _kernel_connections, tasks, nextid, now,
                   last_kernel_activity, culler, config, gauge>>

\* stop_buffering() on the session registered under kernel_id.
stop_buffering(kernel_id) ==
    /\ kernel_id \in DOMAIN _kernels
    /\ LET o == _kernels[kernel_id] IN
        /\ objs' = [objs EXCEPT ![o] = kernel_stop_buffering(@)]
        /\ last' = [Event("stop_buffering", kernel_id, "ok", o, NoObj)
                       EXCEPT !.buf = objs[o].buffer,
                              !.key = IF objs[o].buffer = <<>> THEN None
                                      ELSE objs[o].buffer_for_key]
    /\ UNCHANGED <<_kernels, _kernel_connections, tasks, nextid, now,
                   last_kernel_activity, culler, config, gauge>>

\* Time passes.
AdvanceClock ==
    /\ now < MaxTime
    /\ now' = now + 1
    /\ last' = Event("clock", NoId, "ok", NoObj, NoObj)
    /\ UNCHANGED <<_kernels, _kernel_connections, objs, tasks, nextid,
                   last_kernel_activity, culler, config, gauge>>

\* A cull_kernel_if_idle whose log line reads kernel.kernel_type.
cull_kernel_if_idle_type(kernel_id) ==
    LET kernel == objs[_kernels[kernel_id]]
        dt_idle == now - kernel.last_activity
        is_idle_time == dt_idle > cull_idle_timeout
        is_idle_execute == cull_busy \/ kernel.execution_state # "busy"
        connections == MapGet(_kernel_connections, kernel_id, 0)
        is_idle_connected == cull_connected \/ connections = 0
    IN  IF is_idle_time /\ is_idle_execute /\ is_idle_connected
        THEN "cull" ELSE "keep"

\* cull_kernel_if_idle(kernel_id): "raise" when the attribute lookup
\* kernel.kernel_name of line 492 raises AttributeError, "cull" when line
\* 506 calls kernel.shutdown(), "keep" when the method returns without.
cull_kernel_if_idle(kernel_id) ==
    LET kernel == objs[_kernels[kernel_id]] IN
    IF "kernel_name" \notin KernelInterfaceAttrs THEN "raise"
    ELSE LET dt_idle == now - kernel.last_activity
             is_idle_time == dt_idle > cull_idle_timeout
             is_idle_execute == cull_busy \/ kernel.execution_state # "busy"
             connections == MapGet(_kernel_connections, kernel_id, 0)
             is_idle_connected == cull_connected \/ connections = 0
         IN  IF is_idle_time /\ is_idle_execute /\ is_idle_connected
             THEN "cull" ELSE "keep"

\* A loop without the try/except: the first exception ends it.
cull_loop_notry(order) ==
    LET all == [j \in 1 .. Len(order) |->
                   [kid |-> order[j], res |-> cull_kernel_if_idle(order[j])]]
        raised == {j \in 1 .. Len(order) : all[j].res = "raise"}
    IN  IF raised = {} THEN all
        ELSE SubSeq(all, 1, CHOOSE j \in raised : \A x \in raised : j <= x)

\* The loop of cull_kernels (lines 483-488) over the snapshot: the
\* identifiers it evaluated, each with the outcome of cull_kernel_if_idle;
\* an exception is caught and logged and the loop goes on.
cull_loop(order) ==
    [j \in 1 .. Len(order) |->
        [kid |-> order[j], res |-> cull_kernel_if_idle(order[j])]]

RECURSIVE SeqOfSet(_)
SeqOfSet(S) ==
    IF S = {} THEN <<>>
    ELSE LET m == CHOOSE x \in S : \A y \in S : x <= y
         IN  <<m>> \o SeqOfSet(S \ {m})

\* cull_kernels: one tick of the PeriodicCallback, over a snapshot of the
\* identifiers.  An exception of cull_kernel_if_idle is logged; a
\* kernel.shutdown() it calls is not awaited and stays suspended in
\* client.shutdown_or_terminate.
cull_kernels ==
    /\ _culler_callback = "started"
    /\ Len(tasks) <= MaxTasks
    /\ LET snap == SeqOfSet(DOMAIN _kernels)
           ran == cull_loop(snap)
           culled == {ran[j].kid : j \in {x \in 1 .. Len(ran) :
                                             ran[x].res = "cull"}}
           order == SeqOfSet(culled)
       IN
        /\ objs' = [o \in DOMAIN objs |->
                      IF \E k \in culled : _kernels[k] = o
                      THEN shutdown_begin([objs[o] EXCEPT !.fate = "culled"],
                                          FALSE)
                      ELSE objs[o]]
        /\ tasks' = tasks \o [j \in 1 .. Len(order) |->
                        Task("cull", order[j], "shutdown_wait",
                             _kernels[order[j]], NoObj)]
        /\ last' = [Event("tick", NoId,
                          IF Len(ran) = Len(snap) THEN "ok"
                          ELSE "AttributeError", NoObj, NoObj)
                       EXCEPT !.seen = {ran[j].kid : j \in 1 .. Len(ran)},
                              !.errors = {ran[j].kid : j \in
                                  {x \in 1 .. Len(ran) :
                                      ran[x].res = "raise"}}]
    /\ UNCHANGED <<_kernels, _kernel_connections, nextid, now,
                   last_kernel_activity, culler, config, gauge>>

\* The process of object o is gone for good (it exited, or it was shut
\* down, and the restarter's relaunches failed): the restarter fires 'dead'
\* and stops.  The callback _start_kernel added (lines 305-308) calls
\* _handle_kernel_died(kernel_id), lines 231-240.
MonitorDead(o) ==
    /\ o \in 1 .. Len(objs)
    /\ objs[o].restarter = "started"
    /\ LET kernel_id == objs[o].dead_cb
           stopped == [objs EXCEPT ![o].restarter = "stopped",
                                   ![o].alive = FALSE]
       IN
        IF kernel_id = NoId
        THEN /\ objs' = stopped
             /\ last' = Event("dead", NoId, "no_callback", o, NoObj)
             /\ UNCHANGED <<_kernels, gauge>>
        ELSE IF kernel_id \notin DOMAIN _kernels
        THEN /\ objs' = stopped
             /\ last' = Event("dead", kernel_id, "KeyError", o, NoObj)
             /\ UNCHANGED <<_kernels, gauge>>
        ELSE LET kernel == _kernels[kernel_id] IN
             /\ _kernels' = MapPop(_kernels, kernel_id)
             /\ objs' = [stopped EXCEPT ![kernel].client = "closed",
                                        ![kernel].cleaned = TRUE]
             /\ gauge' = GaugeInc(gauge, objs[kernel].kernel_type)
             /\ last' = Event("dead", kernel_id, "ok", o, kernel)
    /\ UNCHANGED <<_kernel_connections, tasks, nextid, now,
                   last_kernel_activity, culler, config>>

\* The process of object o exits and its restarter relaunches the kernel
\* type: the restarter holds a new manager and fires 'restart', which
\* calls _handle_kernel_restarted.  The result is that of the
\* connect_client call: "returned" when it returned the client at once,
\* "waiting" when it opened one and suspended in wait_for_ready.
MonitorRestart(o) ==
    /\ o \in 1 .. Len(objs)
    /\ objs[o].restarter = "started"
    /\ objs[o].manager <= MaxRestarts
    /\ objs' = [objs EXCEPT
                  ![o] = _handle_kernel_restarted([@ EXCEPT !.alive = TRUE],
                                                  @.manager + 1)]
    /\ last' = Event("restart_event", NoId,
                     IF objs[o].client # None THEN "returned" ELSE "waiting",
                     o, NoObj)
    /\ UNCHANGED <<_kernels, _kernel_connections, tasks, nextid, now,
                   last_kernel_activity, culler, config, gauge>>

\* interrupt() on the session registered under kernel_id: the signal goes
\* to the process.
interrupt(kernel_id) ==
    /\ kernel_id \in DOMAIN _kernels
    /\ last' = Event("interrupt", kernel_id, "ok", _kernels[kernel_id], NoObj)
    /\ UNCHANGED <<_kernels, _kernel_connections, objs, tasks, nextid, now,
                   last_kernel_activity, culler, config, gauge>>

\* The registry's lifecycle: requests, their continuations, the culler's
\* ticks and the restarters' 'dead' events.
Next ==
    \/ \E n \in KernelNames : nextid <= MaxLifeIds /\ start_kernel_new(n)
    \/ \E k \in LifeIds \cup {UnknownId}, n \in KernelNames :
          start_kernel_existing(k, n)
    \/ \E i \in 1 .. MaxTasks : ReadyObserved(i)
    \/ \E i \in 1 .. MaxTasks : ReadyFailed(i)
    \/ \E i \in 1 .. MaxTasks : start_kernel_finish(i)
    \/ \E k \in LifeIds \cup {UnknownId}, b \in BOOLEAN :
          shutdown_kernel(k, b)
    \/ \E k \in LifeIds \cup {UnknownId} : restart_kernel(k)
    \/ \E i \in 1 .. MaxTasks : ShutdownDone(i)
    \/ \E i \in 1 .. MaxTasks : ShutdownFailed(i)
    \/ \E i \in 1 .. MaxTasks : RestartTimeout(i)
    \/ \E k \in LifeIds \cup {UnknownId} : describe(k)
    \/ cull_kernels
    \/ \E o \in 1 .. MaxObjs : MonitorDead(o)

Spec == Init /\ [][Next]_vars

\* Culling: sessions are started and stopped, viewers connect and
\* disconnect, kernels report activity, time passes and the culler ticks.
NextCull ==
    \/ \E n \in KernelNames : nextid <= MaxLifeIds /\ start_kernel_new(n)
    \/ \E k \in LifeIds \cup {UnknownId} : start_kernel_existing(k, None)
    \/ \E i \in 1 .. MaxTasks : ReadyObserved(i)
    \/ \E i \in 1 .. MaxTasks : start_kernel_finish(i)
    \/ \E k \in LifeIds, b \in BOOLEAN : shutdown_kernel(k, b)
    \/ \E i \in 1 .. MaxTasks + MaxIds : ShutdownDone(i)
    \/ \E k \in LifeIds \cup {UnknownId} : notify_connect(k)
    \/ \E k \in LifeIds \cup {UnknownId} : notify_disconnect(k)
    \/ \E o \in 1 .. MaxObjs, m \in IopubMsgs : record_activity(o, m)
    \/ AdvanceClock
    \/ cull_kernels

SpecCull == InitCull /\ [][NextCull]_vars

\* Culling ticks over two sessions.
NextTick ==
    \/ \E n \in KernelNames : start_kernel_new(n)
    \/ \E i \in 1 .. MaxTasks : ReadyObserved(i)
    \/ \E i \in 1 .. MaxTasks : ReadyFailed(i)
    \/ \E i \in 1 .. MaxTasks : start_kernel_finish(i)
    \/ \E k \in Ids, b \in BOOLEAN : shutdown_kernel(k, b)
    \/ \E i \in 1 .. MaxTasks + MaxIds : ShutdownDone(i)
    \/ \E o \in 1 .. MaxObjs, m \in IopubMsgs : record_activity(o, m)
    \/ AdvanceClock
    \/ cull_kernels

SpecTick == InitTick /\ [][NextTick]_vars

\* Buffering: a session is started, websocket handlers start buffering,
\* take the buffer or stop buffering, the kernel sends messages on its
\* channels, and the session is stopped.
NextBuffer ==
    \/ \E n \in KernelNames : nextid <= MaxLifeIds /\ start_kernel_new(n)
    \/ \E i \in 1 .. MaxTasks : ReadyObserved(i)
    \/ \E i \in 1 .. MaxTasks : start_kernel_finish(i)
    \/ \E k \in LifeIds \cup {UnknownId}, key \in SessionKeys :
          start_buffering(k, key)
    \/ \E k \in LifeIds : get_buffer(k)
    \/ \E k \in LifeIds : stop_buffering(k)
    \/ \E o \in 1 .. MaxObjs, c \in Channels \ {"iopub"}, m \in ReplyMsgs :
          channel_message(o, c, m)
    \/ \E o \in 1 .. MaxObjs, m \in IopubMsgs : record_activity(o, m)
    \/ \E k \in LifeIds, b \in BOOLEAN : shutdown_kernel(k, b)
    \/ \E i \in 1 .. MaxTasks : ShutdownDone(i)
    \/ \E i \in 1 .. MaxTasks : ShutdownFailed(i)

SpecBuffer == InitBuffer /\ [][NextBuffer]_vars

\* Activity and restarts: a session is started, viewers connect and
\* disconnect, buffer and interrupt, the kernel sends messages, its
\* restarter relaunches it, time passes and the culler ticks.
NextWatch ==
    \/ \E n \in KernelNames : nextid <= MaxLifeIds /\ start_kernel_new(n)
    \/ \E i \in 1 .. MaxTasks : ReadyObserved(i)
    \/ \E i \in 1 .. MaxTasks : start_kernel_finish(i)
    \/ \E k \in LifeIds : notify_connect(k)
    \/ \E k \in LifeIds : notify_disconnect(k)
    \/ \E k \in LifeIds, key \in SessionKeys : start_buffering(k, key)
    \/ \E k \in LifeIds : get_buffer(k)
    \/ \E k \in LifeIds : stop_buffering(k)
    \/ \E k \in LifeIds : interrupt(k)
    \/ \E o \in 1 .. MaxObjs : MonitorRestart(o)
    \/ \E o \in 1 .. MaxObjs, m \in IopubMsgs : record_activity(o, m)
    \/ AdvanceClock
    \/ cull_kernels

SpecWatch == InitTick /\ [][NextWatch]_vars


\* ----------------------------------------------------------------- claims
ObjIds == 1 .. Len(objs)
TaskIds == 1 .. Len(tasks)

\* A session object counts as started once _start_kernel has registered it,
\* and as gone once shutdown_kernel stopped it, the culler culled it, a
\* replacement was bound to its identifier, or its own restarter fired
\* 'dead'.
Started(o) == objs[o].dead_cb # NoId
Gone(o) == objs[o].fate # None \/ objs[o].restarter = "stopped"

\* C1: list_kernels (and the membership test) holds exactly the identifiers
\* of the sessions that were started and have not been stopped, culled or
\* died.
C1_ListExactlyLive ==
    /\ list_kernels = {objs[o].dead_cb : o \in {x \in ObjIds : Started(x) /\ ~Gone(x)}}
    /\ \A k \in Ids : Contains(k) <=> k \in list_kernels

\* C2: while a shutdown_kernel(X) is suspended in the session's teardown,
\* X is absent from the registry.
C2_StopRemovesBeforeTeardown ==
    \A i \in TaskIds :
        tasks[i].op = "stop" /\ tasks[i].pc = "shutdown_wait"
            => ~Contains(tasks[i].kid)

\* C3: a restart_kernel(X) that fails with the restart timeout leaves X
\* unbound.
C3_RestartTimeoutUnbinds ==
    (last.op = "restart" /\ last.res = "RestartTimeout") => ~Contains(last.kid)

\* C4: once shutdown_kernel has removed X while a restart_kernel(X) is in
\* flight, the restart never binds X again.
C4_StoppedStaysAbsent ==
    [][\A i \in TaskIds :
          (/\ tasks[i].op \in {"restart", "_start_kernel"}
           /\ objs[tasks[i].kernel].fate = "stopped"
           /\ ~Contains(tasks[i].kid))
          => ~Contains(tasks[i].kid)']_vars

\* C5: start_kernel is all-or-nothing.  While it waits for readiness, and
\* after it has failed, its identifier is not in the registry; when
\* _start_kernel registers the identifier the object has a connected client
\* that reported ready, the activity watcher and the 'dead' callback; when
\* it succeeds the identifier is registered and the object it created
\* carries the watcher and the callback.
C5_StartAllOrNothing ==
    /\ \A i \in TaskIds :
          tasks[i].op = "start" /\ tasks[i].pc = "ready_wait"
              => ~Contains(tasks[i].kid)
    /\ (last.op = "start"
          /\ last.res \in {"LaunchFailure", "ConnectTimeout", "KeyError"})
          => ~Contains(last.kid)
    /\ (last.op = "_start_kernel" /\ last.res = "registered")
          => /\ Contains(last.kid)
             /\ _kernels[last.kid] = last.new
             /\ objs[last.new].client = "ready"
             /\ objs[last.new].watching
             /\ objs[last.new].dead_cb = last.kid
    /\ (last.op = "start" /\ last.res = "ok")
          => /\ Contains(last.kid)
             /\ objs[last.new].watching
             /\ objs[last.new].dead_cb = last.kid
             /\ objs[last.new].client \in {"ready", "closed"}

C5_Witness ==
    /\ last.op = "start" /\ last.res = "ok"
    /\ Contains(last.kid) /\ _kernels[last.kid] = last.new
    /\ objs[last.new].client = "ready"

\* The culling criteria of a registered session, with the connection count
\* kernel_model reports.
IdleTooLong(k) == now - objs[_kernels[k]].last_activity > cull_idle_timeout
Eligible(k) ==
    /\ IdleTooLong(k)
    /\ (cull_busy \/ objs[_kernels[k]].execution_state # "busy")
    /\ (cull_connected \/ kernel_model(k).connections = 0)

\* C6: a session that meets all three culling criteria at a tick is shut
\* down by that tick.
C6_EligibleIsCulled ==
    [][last'.op = "tick"
         => \A k \in DOMAIN _kernels :
               Eligible(k)
                 => objs'[_kernels[k]].n_shutdown > objs[_kernels[k]].n_shutdown]_vars

\* C7: a tick never shuts down a session that fails a culling criterion; it
\* stays registered and no shutdown is called on it.
C7_IneligibleSurvives ==
    [][last'.op = "tick"
         => \A k \in DOMAIN _kernels :
               ~Eligible(k)
                 => /\ k \in DOMAIN _kernels'
                    /\ _kernels'[k] = _kernels[k]
                    /\ objs'[_kernels[k]] = objs[_kernels[k]]]_vars

C7_Witness ==
    /\ last.op = "tick"
    /\ \E k \in DOMAIN _kernels :
          /\ IdleTooLong(k)
          /\ objs[_kernels[k]].execution_state # "busy"
          /\ kernel_model(k).connections > 0
          /\ ~cull_connected
          /\ objs[_kernels[k]].n_shutdown = 0

\* The steps in which a request taking an identifier is received.
IsRequest(e) ==
    \/ e.op \in {"stop", "restart"} /\ e.res \in {"pending", "NotFound", "KeyError"}
    \/ e.op \in {"describe", "start_existing"}

\* C8: stop, restart, describe and start with an explicit identifier fail
\* with NotFound on an identifier that is not registered, and change nothing.
C8_UnknownIsNotFound ==
    [][(IsRequest(last') /\ ~Contains(last'.kid))
         => /\ last'.res = "NotFound"
            /\ UNCHANGED <<_kernels, _kernel_connections, objs, tasks, nextid,
                           now, last_kernel_activity, culler, config, gauge>>]_vars

C8_Witness ==
    /\ last.op = "stop" /\ last.res = "NotFound"
    /\ ~Contains(last.kid)
    /\ DOMAIN _kernels # {}

\* C9: start_kernel(kernel_id=X) with X registered returns X and leaves the
\* registry, every session and the launched processes unchanged, whatever
\* kernel_name is passed.
C9_StartExistingIsNoOp ==
    [][(last'.op = "start_existing" /\ Contains(last'.kid))
         => /\ last'.res = "ok"
            /\ UNCHANGED <<_kernels, _kernel_connections, objs, tasks, nextid,
                           gauge>>]_vars

C9_Witness ==
    /\ last.op = "start_existing" /\ last.res = "ok"
    /\ Contains(last.kid)
    /\ kernel_type_for(last.name) # objs[_kernels[last.kid]].kernel_type

\* C10: a restart_kernel(X) that completes leaves X bound to the newly
\* launched replacement, which has the kernel type of the session it
\* replaced, and the replaced session has been shut down.
C10_RestartReplaces ==
    (last.op = "restart" /\ last.res = "ok")
        => /\ Contains(last.kid)
           /\ _kernels[last.kid] = last.new
           /\ last.new # last.kernel
           /\ objs[last.new].kernel_type = objs[last.kernel].kernel_type
           /\ objs[last.new].client = "ready"
           /\ objs[last.new].n_shutdown = 0
           /\ objs[last.kernel].n_shutdown >= 1
           /\ objs[last.kernel].client = "closed"
           /\ objs[last.kernel].cleaned
           /\ ~objs[last.kernel].alive

C10_Witness ==
    /\ last.op = "restart" /\ last.res = "ok"
    /\ Contains(last.kid) /\ _kernels[last.kid] = last.new
    /\ objs[last.new].kernel_type = "spec/ir"

\* C11: shutdown_kernel(X, now=True) on a registered X kills the process
\* and makes no graceful shutdown request, so the call does not wait;
\* shutdown_kernel(X, now=False) makes the graceful request and waits for
\* it without killing.
C11_ImmediateStopKills ==
    [][\A k \in Ids :
          Contains(k)
            => /\ shutdown_kernel(k, TRUE)
                    => /\ objs'[_kernels[k]].killed
                       /\ tasks' = tasks
               /\ shutdown_kernel(k, FALSE)
                    => /\ ~objs'[_kernels[k]].killed
                       /\ Len(tasks') = Len(tasks) + 1
                       /\ tasks'[Len(tasks')].pc = "shutdown_wait"]_vars

\* C12: on a registered session each notify_connect raises the
\* connection count kernel_model reports by one and each
\* notify_disconnect lowers it by one, and no other step changes the count
\* of a session that stays registered; so k connects and j disconnects in
\* any order move it by k - j, and three connects then one disconnect on a
\* new session give 2.
C12_ConnectionsCount ==
    [][\A k \in DOMAIN _kernels :
          (k \in DOMAIN _kernels' /\ _kernels'[k] = _kernels[k])
            => kernel_model(k)'.connections =
                 kernel_model(k).connections
                   + (IF last'.kid # k THEN 0
                      ELSE IF last'.op = "notify_connect" THEN 1
                      ELSE IF last'.op = "notify_disconnect" THEN -1
                      ELSE 0)]_vars

C12_Witness ==
    /\ last.op = "notify_disconnect"
    /\ Contains(last.kid)
    /\ kernel_model(last.kid).connections = 2

\* C13: notify_connect and notify_disconnect on an identifier that is not
\* registered raise nothing and change nothing: no entry appears and every
\* session keeps its connection count.
C13_UnknownNotifyIsNoOp ==
    [][(last'.op \in {"notify_connect", "notify_disconnect"}
          /\ ~Contains(last'.kid))
         => /\ last'.res = "ok"
            /\ UNCHANGED <<_kernels, _kernel_connections, objs, tasks, nextid,
                           now, last_kernel_activity, culler, config, gauge>>]_vars

C13_Witness ==
    /\ last.op = "notify_disconnect" /\ last.res = "ok"
    /\ ~Contains(last.kid)
    /\ \E k \in DOMAIN _kernels : kernel_model(k).connections > 0

\* The steps in which a start_kernel call ends, and those in which it
\* returns an identifier.
StartEnded(e) == e.op \in {"start", "start_existing"} /\ e.res # "pending"
StartReturned(e) == e.op \in {"start", "start_existing"} /\ e.res = "ok"

\* C14 as stated: whenever a start_kernel call has ended, the first one
\* included, the initialized flag is set and the culling callback is
\* scheduled exactly when cull_idle_timeout is positive.
C14_FirstStartInitializes ==
    StartEnded(last)
        => /\ _initialized_culler
           /\ _culler_callback = "started" <=> cull_idle_timeout > 0

\* C14, amended: the culling callback is scheduled at most once and the
\* flag, once set, stays set; both change only in a step in which a
\* start_kernel call returns an identifier; after every such step, the
\* first one included, the flag is set and the callback is scheduled
\* exactly when cull_idle_timeout is positive.  A start_kernel call that
\* fails initializes nothing.
C14_CullerScheduledOnce ==
    [][/\ _culler_callback' # _culler_callback
            => /\ _culler_callback = None /\ ~_initialized_culler
               /\ cull_idle_timeout > 0
       /\ _initialized_culler => _initialized_culler'
       /\ culler' # culler => StartReturned(last')
       /\ StartReturned(last')
            => /\ _initialized_culler'
               /\ _culler_callback' = "started" <=> cull_idle_timeout > 0
       /\ (StartEnded(last') /\ ~StartReturned(last')) => culler' = culler]_vars

C14_Witness ==
    /\ last.op = "start_existing" /\ last.res = "ok"
    /\ _initialized_culler
    /\ _culler_callback = "started"

\* C15: a tick evaluates every identifier registered when it starts; an
\* exception raised while evaluating one of them is logged and the
\* remaining identifiers are still evaluated, and shut down when their
\* evaluation says so; the tick itself never fails.
C15_TickEvaluatesAll ==
    [][last'.op = "tick"
         => /\ last'.res = "ok"
            /\ last'.seen = DOMAIN _kernels
            /\ last'.errors =
                  {k \in DOMAIN _kernels : cull_kernel_if_idle(k) = "raise"}
            /\ \A k \in DOMAIN _kernels :
                  cull_kernel_if_idle(k) = "cull"
                    => objs'[_kernels[k]].n_shutdown
                         > objs[_kernels[k]].n_shutdown
            /\ _kernels' = _kernels]_vars

C15_Witness ==
    /\ last.op = "tick" /\ last.res = "ok"
    /\ Cardinality(last.seen) = 2
    /\ \E k \in last.errors : \E j \in last.seen : j > k

\* A session object that is not buffering: nothing buffered, no session
\* key, no handler kept and none attached to the client.
NotBuffering(k) ==
    /\ k.buffer = <<>>
    /\ k.buffer_for_key = None
    /\ k.buffer_handlers = {}
    /\ \A c \in Channels : k.handlers[c] = 0

\* The steps in which a KernelInterface.shutdown call ends, by returning or
\* by raising.
ShutdownEnded(e) ==
    \/ e.op = "stop" /\ e.res \in {"ok", "ShutdownError"}
    \/ e.op = "restart" /\ e.res \in {"launched", "LaunchFailure",
                                       "ShutdownError"}
    \/ e.op = "cull_shutdown"
    \/ e.op = "cull" /\ e.res = "ShutdownError"

\* C16: however KernelInterface.shutdown ends, the client is closed, the
\* process resources are released and the object is not buffering.
C16_ShutdownAlwaysCleans ==
    ShutdownEnded(last)
        => /\ objs[last.kernel].client = "closed"
           /\ objs[last.kernel].cleaned
           /\ NotBuffering(objs[last.kernel])

\* The steps in which the client of an object delivers a message.
IsMessage(e) == e.op \in {"message", "iopub"}

C18_GetBufferReturnsArrived ==
    [][last'.op = "get_buffer"
         => /\ last'.buf = objs[last'.kernel].arrived
            /\ last'.key = objs[last'.kernel].buffer_for_key
            /\ NotBuffering(objs'[last'.kernel])
            /\ objs[last'.kernel].buffer_for_key = None
                 => /\ last'.buf = <<>>
                    /\ last'.key = None]_vars

C18_Witness ==
    /\ last.op = "get_buffer"
    /\ last.key = "k2"
    /\ Len(last.buf) = 2
    /\ last.buf[1] # last.buf[2]
    /\ NotBuffering(objs[last.kernel])

\* C19: after stop_buffering the object is not buffering (empty buffer, no
\* key, no handler), and that is stable: a message delivered to an object
\* that is not buffering is not appended, and a stop_buffering on such an
\* object raises nothing and changes nothing.
C19_StopBufferingStable ==
    [][/\ last'.op = "stop_buffering"
            => /\ last'.res = "ok"
               /\ NotBuffering(objs'[last'.kernel])
               /\ NotBuffering(objs[last'.kernel]) => objs' = objs
       /\ (IsMessage(last') /\ NotBuffering(objs[last'.kernel]))
            => NotBuffering(objs'[last'.kernel])]_vars

C19_Witness ==
    /\ last.op = "stop_buffering"
    /\ last.buf # <<>> /\ last.key # None
    /\ NotBuffering(objs[last.kernel])

\* C20: a 'dead' event raises nothing, and the session it removes from
\* the registry is the one whose restarter emitted it.
C20_DeadRemovesOwnSession ==
    last.op = "dead"
        => /\ last.res # "KeyError"
           /\ last.res = "ok" => last.new = last.kernel

\* C22: shutdown() is called at most once on any KernelInterface object,
\* whatever the interleaving of shutdown_kernel, restart_kernel and culler
\* ticks; in particular never on an object whose client an earlier
\* shutdown has closed.
C22_ShutdownAtMostOnce ==
    \A o \in ObjIds : objs[o].n_shutdown <= 1

\* C24: the connection count of every registered session is at least 0.
C24_ConnectionsNonNegative ==
    \A k \in DOMAIN _kernels : kernel_model(k).connections >= 0

\* C26: when no coroutine of the registry is suspended, the gauge of each
\* kernel type is the number of registered sessions of that type.
C26_GaugeCountsRegistry ==
    tasks = <<>>
        => \A t \in KernelTypes :
              gauge[t] = Cardinality({k \in DOMAIN _kernels :
                                        objs[_kernels[k]].kernel_type = t})

\* C21: after a 'restart' event on a session whose client is connected,
\* the session holds the restarter's new manager and its client is one
\* opened to that new process.
C21_RestartReconnects ==
    (last.op = "restart_event" /\ objs[last.kernel].client = "ready")
        => /\ objs[last.kernel].manager > 1
           /\ objs[last.kernel].client_for = objs[last.kernel].manager

\* C23: at most one client is ever opened on a session object, and a
\* connect_client call that returns hands back a client on which
\* readiness has been observed, also when it is made while an earlier
\* call is suspended in wait_for_ready.
C23_ConnectReturnsReadyClient ==
    /\ \A o \in ObjIds : objs[o].n_clients <= 1
    /\ (last.op = "restart_event" /\ last.res = "returned")
          => objs[last.kernel].client # "waiting"
    /\ (last.op = "_start_kernel" /\ last.res = "registered")
          => objs[last.new].client = "ready"

\* C25: record_activity is the only writer of a session's execution_state
\* and last_activity.  An iopub message sets the session's last_activity
\* and the registry's last_kernel_activity to the current time and, when
\* it is a status message, execution_state to the state it carries; no
\* other step (notify_connect, notify_disconnect, start_buffering,
\* get_buffer, stop_buffering, interrupt, a culler tick, a 'restart'
\* event, the clock) changes either field of any session.
C25_WatcherSoleWriter ==
    [][\A o \in ObjIds :
          IF last'.op = "iopub" /\ last'.kernel = o
          THEN /\ objs'[o].last_activity = now
               /\ last_kernel_activity' = now
               /\ objs'[o].execution_state =
                     IF last'.res \in {"idle", "busy"} THEN last'.res
                     ELSE objs[o].execution_state
          ELSE /\ objs'[o].last_activity = objs[o].last_activity
               /\ objs'[o].execution_state = objs[o].execution_state]_vars

C25_Witness ==
    /\ last.op = "iopub" /\ last.res = "stream"
    /\ now > 0
    /\ objs[last.kernel].last_activity = now
    /\ last_kernel_activity = now
    /\ objs[last.kernel].execution_state = "busy"
    /\ objs[last.kernel].buffer # <<>>

====
